---- MODULE Spec2Model ----
(***************************************************************************)
(* License server of dizaraj/wacp-server-netlify: the Express handlers of  *)
(* netlify/functions/api.js (lines 1-430, the strict variant) and of       *)
(* netlify/functions/app.js (the lenient variant), their three external    *)
(* collaborators (Firestore, PayPal, Resend) and the requests in flight.   *)
(*                                                                         *)
(* Every handler is an async function: it runs without interruption up to  *)
(* its next await, so one step of a request is the code between two        *)
(* awaits.  What the awaited collaborator answers is an input of the step. *)
(*                                                                         *)
(* Strings are sequences of one-character strings; the empty sequence is   *)
(* both the empty string and an absent JSON field (both are falsy in JS).  *)
(* An optional non-string value is a sequence of length 0 or 1.            *)
(***************************************************************************)
EXTENDS Integers, Sequences, FiniteSets, TLC

\* ------------------------------------------------------------------ bounds

\* Number of requests the model follows (each request slot is used once).
MaxReq == 2

ReqIds == 1..MaxReq

\* ------------------------------------------------------------ input values

ORDER1 == <<"O", "1">>
DOMAIN1 == <<"s", "h", "o", "p", ".", "i", "o">>
DOMAIN2 == <<"x", ".", "c", "o">>
EMAIL1 == <<"a", "@", "b">>
KEY1 == <<"K", "1">>
KEY2 == <<"K", "2">>
TXN1 == <<"T", "X", "N", "1">>
NOW == <<"2", "0", "2", "6", "-", "0", "1", "-", "0", "1", "T", "0", "0", "Z">>
YEAR == <<"2", "0", "2", "6">>

\* Values a client may send for a string field: absent/empty, or a string.
OrderIds == {<<>>, ORDER1}
DomainVals == {<<>>, DOMAIN1, DOMAIN2}
EmailVals == {<<>>, EMAIL1}
LicenseVals == {<<>>, KEY1, KEY2}
\* amount: absent (undefined), 0 (falsy but defined) or 49.
AmountVals == {<<>>, <<0>>, <<49>>}

\* Fraction digits of Math.random().toString(36): none (the value 0, printed
\* "0"), one (0.5 prints "0.i"), or many.
RandomDraws == {<<>>, <<"i">>, <<"4", "f", "z", "y", "o", "8", "2", "m">>, <<"q", "0", "7", "k", "c", "9", "w", "1">>}

\* ---------------------------------------------------------- string helpers

\* String.prototype.slice(a, b) / substring(a, b) for 0 <= a <= b: the
\* characters at JS indices a .. b-1 that exist.
Slice(s, a, b) ==
    LET hi == IF b < Len(s) THEN b ELSE Len(s)
    IN  IF a >= hi THEN <<>> ELSE SubSeq(s, a + 1, hi)

\* String.prototype.toUpperCase on one character.
UpperChar(c) ==
    CASE c = "a" -> "A" [] c = "b" -> "B" [] c = "c" -> "C" [] c = "d" -> "D"
      [] c = "e" -> "E" [] c = "f" -> "F" [] c = "g" -> "G" [] c = "h" -> "H"
      [] c = "i" -> "I" [] c = "j" -> "J" [] c = "k" -> "K" [] c = "l" -> "L"
      [] c = "m" -> "M" [] c = "n" -> "N" [] c = "o" -> "O" [] c = "p" -> "P"
      [] c = "q" -> "Q" [] c = "r" -> "R" [] c = "s" -> "S" [] c = "t" -> "T"
      [] c = "u" -> "U" [] c = "v" -> "V" [] c = "w" -> "W" [] c = "x" -> "X"
      [] c = "y" -> "Y" [] c = "z" -> "Z" [] OTHER -> c

ToUpperCase(s) == [i \in 1..Len(s) |-> UpperChar(s[i])]

\* Number.prototype.toString(36) of a Math.random() value whose base-36
\* fraction digits are d: "0" when there are none, "0." followed by d.
RandomToString36(d) == IF d = <<>> THEN <<"0">> ELSE <<"0", ".">> \o d

\* JS !v for a string or an absent field.
Falsy(v) == v = <<>>

\* ------------------------------------------------------- license key format

\* One group of the api.js key: Math.random().toString(36).slice(2, 7)
\* .toUpperCase().
KeyGroupApi(d) == ToUpperCase(Slice(RandomToString36(d), 2, 7))

\* api.js: "PRO-" + [...Array(4)].map(() => group).join("-"); draws holds the
\* four Math.random() values.
GeneratedKeyApi(draws) ==
    <<"P", "R", "O", "-">> \o KeyGroupApi(draws[1]) \o <<"-">> \o KeyGroupApi(draws[2])
        \o <<"-">> \o KeyGroupApi(draws[3]) \o <<"-">> \o KeyGroupApi(draws[4])

\* app.js: `WAPRO-${domain.substring(0, 4).toUpperCase()}-${Math.random()
\* .toString(36).substring(2, 8).toUpperCase()}-${new Date().getFullYear()}`.
GeneratedKeyApp(domain, draws) ==
    <<"W", "A", "P", "R", "O", "-">> \o ToUpperCase(Slice(domain, 0, 4)) \o <<"-">>
        \o ToUpperCase(Slice(RandomToString36(draws[1]), 2, 8)) \o <<"-">> \o YEAR

GeneratedKey(variant, domain, draws) ==
    IF variant = "api" THEN GeneratedKeyApi(draws) ELSE GeneratedKeyApp(domain, draws)

\* The Math.random() values one capture draws, as the request steps see them.
KeyDraws ==
    { <<<<"4", "f", "z", "y", "o", "8", "2", "m">>, <<"q", "0", "7", "k", "c", "9", "w", "1">>,
        <<"4", "f", "z", "y", "o", "8", "2", "m">>, <<"q", "0", "7", "k", "c", "9", "w", "1">>>>,
      <<<<"i">>, <<>>, <<"q", "0", "7", "k", "c", "9", "w", "1">>, <<"i">>>> }

\* ------------------------------------------------------------ the collection

\* Variant of LicenseDoc that stores the caller's fields only.
LicenseDocNoCreatedAt(license, domain, email, amount, transactionId) ==
    [license |-> license, domain |-> domain, email |-> email, amount |-> amount,
     transactionId |-> transactionId, createdAt |-> <<>>]

\* What db.collection("licenses").add(...) stores: the caller's fields and a
\* server-set createdAt.
LicenseDoc(license, domain, email, amount, transactionId) ==
    [license |-> license, domain |-> domain, email |-> email, amount |-> amount,
     transactionId |-> transactionId, createdAt |-> NOW]

\* The collections a starting process may find: an empty one, or one that
\* holds a license sold earlier for DOMAIN1 under KEY2.
SeedStores == {<<>>, <<LicenseDoc(KEY2, DOMAIN1, EMAIL1, <<49>>, TXN1)>>}

\* ------------------------------------------------------------ configuration

\* What the process found in its environment at startup: which file is
\* deployed, whether the Firestore handle db is non-null, whether
\* PAYPAL_CLIENT_ID / PAYPAL_CLIENT_SECRET are set, whether the Resend
\* client resend is non-null; and the documents the collection, which
\* outlives the process, already held.
Variants == {"api", "app"}

Configs ==
    [variant : Variants, db : BOOLEAN, paypalId : BOOLEAN, paypalSecret : BOOLEAN,
     resend : BOOLEAN, seed : SeedStores]

\* ------------------------------------------------------------------- state

VARIABLES
    cfg,    \* the startup configuration (never changes afterwards)
    store,  \* the Firestore collection "licenses", in insertion order
    proc,   \* the requests: endpoint, body, position, locals, response
    ref     \* a reference deployment, with all three collaborators configured,
            \* serving the same request (used by SpecPair only): its request
            \* and its collection

vars == <<cfg, store, proc, ref>>

\* No capture result received (yet).
NoCapture == [throws |-> FALSE, status |-> "none", path |-> "no_purchase_units", id |-> <<>>]

\* A request slot before its request arrives: the request, its position, the
\* external calls it issued, and what it has seen and computed so far (the
\* token outcome, capturedData, generatedKey, transactionId,
\* licenseResult.success and .id, the status line of the admin mail, the
\* query outcome).
Idle ==
    [ep |-> "none", body |-> <<>>, pc |-> "idle", calls |-> <<>>, status |-> 0,
     resp |-> <<>>, token |-> "none", captured |-> NoCapture, key |-> <<>>,
     txn |-> <<>>, saved |-> "", docId |-> 0, adminSaid |-> "", query |-> "none"]

\* The reference deployment while it serves nothing.
NoRef == [p |-> Idle, store |-> <<>>]

NewRequest(ep, body) == [Idle EXCEPT !.ep = ep, !.body = body, !.pc = "start"]

\* res.status(s).json(b): the handler's (single) response.
Respond(p, s, b) == [p EXCEPT !.pc = "done", !.status = s, !.resp = b]

\* The handler issues an external call and awaits it at position pc.
Call(p, name, pc) == [p EXCEPT !.calls = Append(@, name), !.pc = pc]

\* ------------------------------------------------------------ collaborators

\* What the capture call can produce: a thrown error (network failure, a body
\* that is not JSON), or a JSON body with a status ("" when the body has no
\* status field) and some prefix of the path
\* purchase_units[0].payments.captures[0].id.
PathShapes ==
    {"no_purchase_units", "empty_purchase_units", "no_payments", "no_captures",
     "empty_captures", "no_id", "id"}

CaptureResults ==
    {[throws |-> TRUE, status |-> "", path |-> "no_purchase_units", id |-> <<>>]}
    \cup {[throws |-> FALSE, status |-> s, path |-> "no_purchase_units", id |-> <<>>] :
            s \in {"", "PENDING"}}
    \cup {[throws |-> FALSE, status |-> "COMPLETED", path |-> sh,
           id |-> IF sh = "id" THEN TXN1 ELSE <<>>] : sh \in PathShapes}

\* capturedData.purchase_units[0].payments.captures[0].id: a TypeError when a
\* link of the path is undefined, undefined (absent) when only id is missing.
TransactionIdOf(cd) ==
    IF cd.path \in {"no_id", "id"}
    THEN [throws |-> FALSE, id |-> cd.id]
    ELSE [throws |-> TRUE, id |-> <<>>]

\* What the order-creation call can produce.
OrderResults ==
    {[throws |-> TRUE, status |-> 0], [throws |-> FALSE, status |-> 201],
     [throws |-> FALSE, status |-> 422]}

\* ------------------------------------------------- POST /capture-order

\* The response after a completed capture; JSON.stringify drops a
\* transactionId that is undefined.
CaptureOrderRespond(p) ==
    Respond(p, 200,
        IF p.txn = <<>>
        THEN [licenseKey |-> p.key]
        ELSE [licenseKey |-> p.key, transactionId |-> p.txn])

CaptureOrderFail(p) == Respond(p, 500, [error |-> "Failed to capture order."])

\* Variant of CaptureOrderBegin that does not validate the body.
CaptureOrderBeginUnvalidated(c, p) ==
    IF ~c.db
    THEN Respond(p, 503, [message |-> "Service Unavailable: Database not connected."])
    ELSE IF ~c.paypalId \/ ~c.paypalSecret
    THEN CaptureOrderFail(p)
    ELSE Call(p, "token", "token")

\* Variant of CaptureOrderBegin mounted without checkDbConnection.
CaptureOrderBeginNoDbCheck(c, p) ==
    IF Falsy(p.body.orderID) \/ Falsy(p.body.domain) \/ Falsy(p.body.email)
    THEN Respond(p, 400, [error |-> "Missing required fields: orderID, domain, and email."])
    ELSE IF ~c.paypalId \/ ~c.paypalSecret
    THEN CaptureOrderFail(p)
    ELSE Call(p, "token", "token")

\* checkDbConnection, the validation of the body, and generateAccessToken up
\* to its fetch.
CaptureOrderBegin(c, p) ==
    IF ~c.db
    THEN Respond(p, 503, [message |-> "Service Unavailable: Database not connected."])
    ELSE IF Falsy(p.body.orderID) \/ Falsy(p.body.domain) \/ Falsy(p.body.email)
    THEN Respond(p, 400, [error |-> "Missing required fields: orderID, domain, and email."])
    ELSE IF ~c.paypalId \/ ~c.paypalSecret
    THEN CaptureOrderFail(p)
    ELSE Call(p, "token", "token")

\* Variant of CaptureOrderToken in which generateAccessToken swallows its
\* error and returns undefined.
CaptureOrderTokenSwallowed(c, p, tokenOk) ==
    Call([p EXCEPT !.token = IF tokenOk THEN "ok" ELSE "failed"], "capture", "capture")

\* The token fetch returned: response.ok or not (a thrown fetch counts as
\* not ok: both end in the rethrown "Failed to generate PayPal Access
\* Token."); on success the capture fetch is issued.
CaptureOrderToken(c, p, tokenOk) ==
    IF ~tokenOk
    THEN CaptureOrderFail([p EXCEPT !.token = "failed"])
    ELSE Call([p EXCEPT !.token = "ok"], "capture", "capture")

\* Variant of CaptureOrderNotify that issues both sends at once and awaits
\* them together.
CaptureOrderNotifyBothAtOnce(c, p) ==
    IF c.resend
    THEN Call(Call([p EXCEPT !.adminSaid = IF p.saved = "yes" THEN "Saved successfully."
                                            ELSE "SAVE FAILED."],
                   "custEmail", "custEmail"),
              "adminEmail", "adminEmail")
    ELSE CaptureOrderRespond(p)

\* if (resend) { try { await resend.emails.send(customer) ...
CaptureOrderNotify(c, p) ==
    IF c.resend THEN Call(p, "custEmail", "custEmail") ELSE CaptureOrderRespond(p)

\* Variant of CaptureOrderCaptured without the test of capturedData.status.
CaptureOrderCapturedAnyStatus(c, p, cd, draws) ==
    IF cd.throws
    THEN CaptureOrderFail([p EXCEPT !.captured = cd])
    ELSE LET q == [p EXCEPT !.captured = cd,
                            !.key = GeneratedKey(c.variant, p.body.domain, draws),
                            !.txn = cd.id]
         IN  Call(q, "insert", "insert")

\* Variant of CaptureOrderCaptured that takes capturedData.id, the order's id,
\* for the transaction id.
CaptureOrderCapturedOrderId(c, p, cd, draws) ==
    IF cd.throws
    THEN CaptureOrderFail([p EXCEPT !.captured = cd])
    ELSE IF cd.status # "COMPLETED"
    THEN Respond([p EXCEPT !.captured = cd], 400,
             [error |-> "Payment not completed.", details |-> cd])
    ELSE Call([p EXCEPT !.captured = cd,
                        !.key = GeneratedKey(c.variant, p.body.domain, draws),
                        !.txn = p.body.orderID],
              "insert", "insert")

\* The capture fetch returned cd: the status test, the key, the transaction
\* id, and createLicense up to its add().
CaptureOrderCaptured(c, p, cd, draws) ==
    IF cd.throws
    THEN CaptureOrderFail([p EXCEPT !.captured = cd])
    ELSE IF cd.status # "COMPLETED"
    THEN Respond([p EXCEPT !.captured = cd], 400,
             [error |-> "Payment not completed.", details |-> cd])
    ELSE IF TransactionIdOf(cd).throws
    THEN CaptureOrderFail([p EXCEPT !.captured = cd])
    ELSE LET q == [p EXCEPT !.captured = cd,
                            !.key = GeneratedKey(c.variant, p.body.domain, draws),
                            !.txn = TransactionIdOf(cd).id]
         IN  IF ~c.db
             THEN CaptureOrderNotify(c, [q EXCEPT !.saved = "no"])
             ELSE Call(q, "insert", "insert")

\* Variant of CaptureOrderInserted in which a failed add() aborts the request.
CaptureOrderInsertedAborts(c, p, st, addOk) ==
    LET doc == LicenseDoc(p.key, p.body.domain, p.body.email, <<49>>, p.txn)
        st2 == IF addOk THEN Append(st, doc) ELSE st
        q == [p EXCEPT !.saved = IF addOk THEN "yes" ELSE "no",
                       !.docId = IF addOk THEN Len(st2) ELSE 0]
    IN  [p |-> IF addOk THEN CaptureOrderNotify(c, q) ELSE CaptureOrderFail(q), store |-> st2]

\* add() returned or threw: licenseResult, then the first send.
CaptureOrderInserted(c, p, st, addOk) ==
    LET doc == LicenseDoc(p.key, p.body.domain, p.body.email, <<49>>, p.txn)
        st2 == IF addOk THEN Append(st, doc) ELSE st
        q == [p EXCEPT !.saved = IF addOk THEN "yes" ELSE "no",
                       !.docId = IF addOk THEN Len(st2) ELSE 0]
    IN  [p |-> CaptureOrderNotify(c, q), store |-> st2]

\* Variant of CaptureOrderCustSent whose admin mail always reports a
\* successful save.
CaptureOrderCustSentSaysSaved(c, p, sendOk) ==
    IF ~sendOk
    THEN CaptureOrderRespond(p)
    ELSE Call([p EXCEPT !.adminSaid = "Saved successfully."], "adminEmail", "adminEmail")

\* The customer send returned or threw; a throw leaves the try block.
CaptureOrderCustSent(c, p, sendOk) ==
    IF ~sendOk
    THEN CaptureOrderRespond(p)
    ELSE Call([p EXCEPT !.adminSaid = IF p.saved = "yes" THEN "Saved successfully." ELSE "SAVE FAILED."],
              "adminEmail", "adminEmail")

\* The admin send returned or threw: either way the response follows.
CaptureOrderAdminSent(c, p, sendOk) == CaptureOrderRespond(p)

\* ------------------------------------------------ GET /status, GET /config

StatusHandler(c, p) ==
    IF c.db
    THEN Respond(p, 200, [message |-> "Server is running and database is connected."])
    ELSE Respond(p, 503, [message |-> "Service Unavailable: Database connection failed."])

\* api.js only; the body carries the configured client id.
ConfigHandler(c, p) ==
    IF c.paypalId
    THEN Respond(p, 200, [paypalClientId |-> "PAYPAL_CLIENT_ID"])
    ELSE Respond(p, 500, [error |-> "Payment provider configuration is missing."])

\* ------------------------------------------------------------ POST /license

\* Variant of LicenseBegin that does not require amount.
LicenseBeginNoAmountCheck(c, p) ==
    IF ~c.db
    THEN Respond(p, 503, [message |-> "Service Unavailable: Database not connected."])
    ELSE IF Falsy(p.body.license) \/ Falsy(p.body.domain) \/ Falsy(p.body.email)
    THEN Respond(p, 400, [message |-> "Invalid input. All fields are required."])
    ELSE Call(p, "insert", "insert")

\* checkDbConnection, the validation, and createLicense up to its add().
LicenseBegin(c, p) ==
    IF ~c.db
    THEN Respond(p, 503, [message |-> "Service Unavailable: Database not connected."])
    ELSE IF Falsy(p.body.license) \/ Falsy(p.body.domain) \/ Falsy(p.body.email)
            \/ p.body.amount = <<>>
    THEN Respond(p, 400, [message |-> "Invalid input. All fields are required."])
    ELSE Call(p, "insert", "insert")

\* Variant of LicenseInserted that keeps one record per domain: it overwrites
\* the records of the request's domain instead of adding one.
LicenseInsertedUpsert(c, p, st, addOk) ==
    LET doc == LicenseDoc(p.body.license, p.body.domain, p.body.email, p.body.amount, <<>>)
        old == {i \in 1..Len(st) : st[i].domain = doc.domain}
        st2 == IF ~addOk THEN st
               ELSE IF old = {} THEN Append(st, doc)
               ELSE [i \in 1..Len(st) |-> IF i \in old THEN doc ELSE st[i]]
        q == [p EXCEPT !.saved = IF addOk THEN "yes" ELSE "no",
                       !.docId = IF addOk THEN Len(st2) ELSE 0]
    IN  [p |-> IF addOk
               THEN Respond(q, 201, [message |-> "License created successfully", id |-> q.docId])
               ELSE Respond(q, 500, [message |-> "Error creating license.", error |-> "error.message"]),
         store |-> st2]

\* add() returned or threw.
LicenseInserted(c, p, st, addOk) ==
    LET doc == LicenseDoc(p.body.license, p.body.domain, p.body.email, p.body.amount, <<>>)
        st2 == IF addOk THEN Append(st, doc) ELSE st
        q == [p EXCEPT !.saved = IF addOk THEN "yes" ELSE "no",
                       !.docId = IF addOk THEN Len(st2) ELSE 0]
    IN  [p |-> IF addOk
               THEN Respond(q, 201, [message |-> "License created successfully", id |-> q.docId])
               ELSE Respond(q, 500, [message |-> "Error creating license.", error |-> "error.message"]),
         store |-> st2]

\* ------------------------------------------------------- POST /create-order

CreateOrderFail(p) == Respond(p, 500, [error |-> "Failed to create order."])

CreateOrderBegin(c, p) ==
    IF ~c.paypalId \/ ~c.paypalSecret THEN CreateOrderFail(p) ELSE Call(p, "token", "token")

CreateOrderToken(c, p, tokenOk) ==
    IF ~tokenOk
    THEN CreateOrderFail([p EXCEPT !.token = "failed"])
    ELSE Call([p EXCEPT !.token = "ok"], "order", "order")

\* res.status(response.status).json(data)
CreateOrderCreated(c, p, ord) ==
    IF ord.throws THEN CreateOrderFail(p) ELSE Respond(p, ord.status, [id |-> "provider order"])

\* --------------------------------------------------------- POST /send-email

\* Variant of SendEmailBegin behind checkDbConnection, as if the middleware
\* were mounted on the whole router.
SendEmailBeginBehindDb(c, p) ==
    IF ~c.db
    THEN Respond(p, 503, [message |-> "Service Unavailable: Database not connected."])
    ELSE IF Falsy(p.body.name) \/ Falsy(p.body.email) \/ Falsy(p.body.subject)
            \/ Falsy(p.body.message)
    THEN Respond(p, 400, [message |-> "All fields are required."])
    ELSE IF ~c.resend
    THEN Respond(p, 503, [message |-> "Service Unavailable: Email service not configured."])
    ELSE Call(p, "contactEmail", "send")

SendEmailBegin(c, p) ==
    IF Falsy(p.body.name) \/ Falsy(p.body.email) \/ Falsy(p.body.subject)
            \/ Falsy(p.body.message)
    THEN Respond(p, 400, [message |-> "All fields are required."])
    ELSE IF ~c.resend
    THEN Respond(p, 503, [message |-> "Service Unavailable: Email service not configured."])
    ELSE Call(p, "contactEmail", "send")

SendEmailSent(c, p, sendOk) ==
    IF sendOk
    THEN Respond(p, 200, [message |-> "Thank you! Your message has been sent."])
    ELSE Respond(p, 500, [message |-> "Sorry, something went wrong. Please try again later."])

\* ------------------------------------------------------------- GET /verify

\* Variant of VerifyMatches that filters on the domain alone.
VerifyMatchesDomainOnly(variant, doc, key, domain) == doc.domain = domain

\* The where() clauses of the variant's query.
VerifyMatches(variant, doc, key, domain) ==
    IF variant = "api"
    THEN doc.license = key /\ doc.domain = domain
    ELSE doc.domain = domain

\* The documents the query matches, as positions in the collection.
VerifyMatchSet(variant, st, key, domain) ==
    {i \in 1..Len(st) : VerifyMatches(variant, st[i], key, domain)}

\* Which query parameters the variant requires.
VerifyMissing(variant, key, domain) ==
    IF variant = "api" THEN Falsy(key) \/ Falsy(domain) ELSE Falsy(domain)

\* Variant of VerifyBody that returns the whole document.
VerifyBodyFullData(doc) == doc @@ [verified |-> TRUE]

\* What the handler copies from the matched document into the response.
VerifyBody(doc) == [license |-> doc.license, domain |-> doc.domain, verified |-> TRUE]

VerifyBegin(c, p) ==
    IF ~c.db
    THEN Respond(p, 503, [message |-> "Service Unavailable: Database not connected."])
    ELSE IF VerifyMissing(c.variant, p.body.key, p.body.domain)
    THEN Respond(p, 400,
             IF c.variant = "api"
             THEN [message |-> "Key and domain are required for verification."]
             ELSE [message |-> "Domain is required for verification."])
    ELSE Call(p, "query", "query")

\* get() returned or threw. limit(1) returns one of the matching documents:
\* pick is its position, 0 when the snapshot is empty.
VerifyQueried(c, p, st, queryOk, pick) ==
    IF ~queryOk
    THEN Respond([p EXCEPT !.query = "failed"], 500,
             [message |-> "Error verifying license.", error |-> "error.message"])
    ELSE IF pick = 0
    THEN Respond([p EXCEPT !.query = "empty"], 404,
             IF c.variant = "api"
             THEN [verified |-> FALSE, message |-> "Invalid license key or domain."]
             ELSE [message |-> "No license found for the specified domain."])
    ELSE Respond([p EXCEPT !.query = "found", !.docId = pick], 200, VerifyBody(st[pick]))

\* The positions limit(1) may return for the request's query.
VerifyPicks(c, p, st) ==
    LET m == VerifyMatchSet(c.variant, st, p.body.key, p.body.domain)
    IN  IF m = {} THEN {0} ELSE m

\* ------------------------------------------------------------ the requests

\* Body b with field f absent.
Without(b, f) == [b EXCEPT ![f] = <<>>]

\* The bodies the model sends: every complete one, and one body for each
\* single absent field (each validation is a disjunction over the fields).
CaptureBodies ==
    LET complete == [orderID : OrderIds \ {<<>>}, domain : DomainVals \ {<<>>},
                     email : EmailVals \ {<<>>}]
        b0 == [orderID |-> ORDER1, domain |-> DOMAIN1, email |-> EMAIL1]
    IN  complete \cup {Without(b0, f) : f \in DOMAIN b0}

LicenseBodies ==
    LET complete == [license : LicenseVals \ {<<>>}, domain : DomainVals \ {<<>>},
                     email : EmailVals \ {<<>>}, amount : AmountVals \ {<<>>}]
        b0 == [license |-> KEY1, domain |-> DOMAIN1, email |-> EMAIL1, amount |-> <<49>>]
    IN  complete \cup {Without(b0, f) : f \in DOMAIN b0}

SendEmailBodies ==
    LET b0 == [name |-> <<"n">>, email |-> EMAIL1, subject |-> <<"s">>, message |-> <<"m">>]
    IN  {b0} \cup {Without(b0, f) : f \in DOMAIN b0}

\* A verifying client sends any key: one of its own, or one the server issued.
VerifyQueries(st) ==
    [key : LicenseVals \cup {st[i].license : i \in 1..Len(st)}, domain : DomainVals]

\* Requests are numbered in their order of arrival.
CanArrive(r) ==
    /\ proc[r].pc = "idle"
    /\ IF r = 1 THEN TRUE ELSE proc[r - 1].pc # "idle"

At(r, ep, pc) == proc[r].ep = ep /\ proc[r].pc = pc

Set(r, p) == proc' = [proc EXCEPT ![r] = p]

Store(r, res) == proc' = [proc EXCEPT ![r] = res.p] /\ store' = res.store

\* ----------------------------------------------------------------- actions

ReceiveStatus(r) ==
    /\ CanArrive(r)
    /\ Set(r, StatusHandler(cfg, NewRequest("status", <<>>)))
    /\ UNCHANGED <<cfg, store, ref>>

ReceiveConfig(r) ==
    /\ CanArrive(r)
    /\ cfg.variant = "api"
    /\ Set(r, ConfigHandler(cfg, NewRequest("config", <<>>)))
    /\ UNCHANGED <<cfg, store, ref>>

ReceiveLicense(r) ==
    /\ CanArrive(r)
    /\ \E b \in LicenseBodies : Set(r, LicenseBegin(cfg, NewRequest("license", b)))
    /\ UNCHANGED <<cfg, store, ref>>

LicenseAddReturns(r) ==
    /\ At(r, "license", "insert")
    /\ \E addOk \in BOOLEAN : Store(r, LicenseInserted(cfg, proc[r], store, addOk))
    /\ UNCHANGED <<cfg, ref>>

ReceiveCreateOrder(r) ==
    /\ CanArrive(r)
    /\ Set(r, CreateOrderBegin(cfg, NewRequest("createOrder", <<>>)))
    /\ UNCHANGED <<cfg, store, ref>>

CreateOrderTokenReturns(r) ==
    /\ At(r, "createOrder", "token")
    /\ \E tokenOk \in BOOLEAN : Set(r, CreateOrderToken(cfg, proc[r], tokenOk))
    /\ UNCHANGED <<cfg, store, ref>>

CreateOrderReturns(r) ==
    /\ At(r, "createOrder", "order")
    /\ \E ord \in OrderResults : Set(r, CreateOrderCreated(cfg, proc[r], ord))
    /\ UNCHANGED <<cfg, store, ref>>

ReceiveCaptureOrder(r) ==
    /\ CanArrive(r)
    /\ \E b \in CaptureBodies : Set(r, CaptureOrderBegin(cfg, NewRequest("captureOrder", b)))
    /\ UNCHANGED <<cfg, store, ref>>

CaptureTokenReturns(r) ==
    /\ At(r, "captureOrder", "token")
    /\ \E tokenOk \in BOOLEAN : Set(r, CaptureOrderToken(cfg, proc[r], tokenOk))
    /\ UNCHANGED <<cfg, store, ref>>

CaptureReturns(r) ==
    /\ At(r, "captureOrder", "capture")
    /\ \E cd \in CaptureResults, draws \in KeyDraws :
           Set(r, CaptureOrderCaptured(cfg, proc[r], cd, draws))
    /\ UNCHANGED <<cfg, store, ref>>

CaptureAddReturns(r) ==
    /\ At(r, "captureOrder", "insert")
    /\ \E addOk \in BOOLEAN : Store(r, CaptureOrderInserted(cfg, proc[r], store, addOk))
    /\ UNCHANGED <<cfg, ref>>

CustomerSendReturns(r) ==
    /\ At(r, "captureOrder", "custEmail")
    /\ \E sendOk \in BOOLEAN : Set(r, CaptureOrderCustSent(cfg, proc[r], sendOk))
    /\ UNCHANGED <<cfg, store, ref>>

AdminSendReturns(r) ==
    /\ At(r, "captureOrder", "adminEmail")
    /\ \E sendOk \in BOOLEAN : Set(r, CaptureOrderAdminSent(cfg, proc[r], sendOk))
    /\ UNCHANGED <<cfg, store, ref>>

ReceiveSendEmail(r) ==
    /\ CanArrive(r)
    /\ \E b \in SendEmailBodies : Set(r, SendEmailBegin(cfg, NewRequest("sendEmail", b)))
    /\ UNCHANGED <<cfg, store, ref>>

ContactSendReturns(r) ==
    /\ At(r, "sendEmail", "send")
    /\ \E sendOk \in BOOLEAN : Set(r, SendEmailSent(cfg, proc[r], sendOk))
    /\ UNCHANGED <<cfg, store, ref>>

ReceiveVerify(r) ==
    /\ CanArrive(r)
    /\ \E q \in VerifyQueries(store) : Set(r, VerifyBegin(cfg, NewRequest("verify", q)))
    /\ UNCHANGED <<cfg, store, ref>>

VerifyQueryReturns(r) ==
    /\ At(r, "verify", "query")
    /\ \E queryOk \in BOOLEAN, pick \in VerifyPicks(cfg, proc[r], store) :
           Set(r, VerifyQueried(cfg, proc[r], store, queryOk, pick))
    /\ UNCHANGED <<cfg, store, ref>>

\* ------------------------------------------------------------ specification

Init ==
    /\ cfg \in Configs
    /\ store = cfg.seed
    /\ proc = [r \in ReqIds |-> Idle]
    /\ ref = NoRef

Next ==
    \E r \in ReqIds :
        \/ ReceiveStatus(r)
        \/ ReceiveConfig(r)
        \/ ReceiveLicense(r)
        \/ LicenseAddReturns(r)
        \/ ReceiveCreateOrder(r)
        \/ CreateOrderTokenReturns(r)
        \/ CreateOrderReturns(r)
        \/ ReceiveCaptureOrder(r)
        \/ CaptureTokenReturns(r)
        \/ CaptureReturns(r)
        \/ CaptureAddReturns(r)
        \/ CustomerSendReturns(r)
        \/ AdminSendReturns(r)
        \/ ReceiveSendEmail(r)
        \/ ContactSendReturns(r)
        \/ ReceiveVerify(r)
        \/ VerifyQueryReturns(r)

Spec == Init /\ [][Next]_vars

\* ------------------------------------------------ the reference deployment

\* The same file deployed with all three collaborators configured.
AllConfigured(c) ==
    [c EXCEPT !.db = TRUE, !.paypalId = TRUE, !.paypalSecret = TRUE, !.resend = TRUE]

\* The requests a deployment routes: a path of the router and a body.
Requests(c, st) ==
    {[ep |-> e, body |-> <<>>] : e \in {"status", "createOrder"}}
        \cup (IF c.variant = "api" THEN {[ep |-> "config", body |-> <<>>]} ELSE {})
        \cup {[ep |-> "license", body |-> b] : b \in LicenseBodies}
        \cup {[ep |-> "captureOrder", body |-> b] : b \in CaptureBodies}
        \cup {[ep |-> "sendEmail", body |-> b] : b \in SendEmailBodies}
        \cup {[ep |-> "verify", body |-> b] : b \in VerifyQueries(st)}

\* The router: the handler of the request's path, run up to its first await.
Route(c, q) ==
    LET p == NewRequest(q.ep, q.body)
    IN  CASE q.ep = "status" -> StatusHandler(c, p)
          [] q.ep = "config" -> ConfigHandler(c, p)
          [] q.ep = "license" -> LicenseBegin(c, p)
          [] q.ep = "createOrder" -> CreateOrderBegin(c, p)
          [] q.ep = "captureOrder" -> CaptureOrderBegin(c, p)
          [] q.ep = "sendEmail" -> SendEmailBegin(c, p)
          [] q.ep = "verify" -> VerifyBegin(c, p)

\* The handler awaiting generateAccessToken resumes.
TokenStep(c, p, tokenOk) ==
    IF p.pc # "token" THEN p
    ELSE IF p.ep = "createOrder" THEN CreateOrderToken(c, p, tokenOk)
    ELSE CaptureOrderToken(c, p, tokenOk)

\* The handler awaiting the order fetch resumes.
OrderStep(c, p, ord) == IF p.pc # "order" THEN p ELSE CreateOrderCreated(c, p, ord)

\* The handler awaiting the capture fetch resumes.
CaptureStep(c, p, cd, draws) ==
    IF p.pc # "capture" THEN p ELSE CaptureOrderCaptured(c, p, cd, draws)

\* The handler awaiting createLicense resumes.
AddStep(c, p, st, addOk) ==
    IF p.pc # "insert" THEN [p |-> p, store |-> st]
    ELSE IF p.ep = "license" THEN LicenseInserted(c, p, st, addOk)
    ELSE CaptureOrderInserted(c, p, st, addOk)

\* The handler awaiting resend.emails.send resumes.
SendStep(c, p, sendOk) ==
    CASE p.pc = "custEmail" -> CaptureOrderCustSent(c, p, sendOk)
      [] p.pc = "adminEmail" -> CaptureOrderAdminSent(c, p, sendOk)
      [] p.pc = "send" -> SendEmailSent(c, p, sendOk)
      [] OTHER -> p

\* The handler awaiting the query resumes.
QueryStep(c, p, st, queryOk, pick) ==
    IF p.pc # "query" THEN p ELSE VerifyQueried(c, p, st, queryOk, pick)

\* One of the two deployments awaits at one of these positions.
PairAwaits(pcs) == proc[1].pc \in pcs \/ ref.p.pc \in pcs

\* Both deployments step: the deployment under test as configured, the
\* reference with everything configured.
PairSet(p, q) ==
    /\ proc' = [proc EXCEPT ![1] = p]
    /\ ref' = [ref EXCEPT !.p = q]
    /\ UNCHANGED <<cfg, store>>

\* The same request reaches both deployments.
PairReceive ==
    /\ proc[1].pc = "idle" /\ ref.p.pc = "idle"
    /\ \E q \in Requests(cfg, store) : PairSet(Route(cfg, q), Route(AllConfigured(cfg), q))

\* Each collaborator gives both deployments the same answer.
PairTokenReturns ==
    /\ PairAwaits({"token"})
    /\ \E tokenOk \in BOOLEAN :
           PairSet(TokenStep(cfg, proc[1], tokenOk),
                   TokenStep(AllConfigured(cfg), ref.p, tokenOk))

PairOrderReturns ==
    /\ PairAwaits({"order"})
    /\ \E ord \in OrderResults :
           PairSet(OrderStep(cfg, proc[1], ord), OrderStep(AllConfigured(cfg), ref.p, ord))

PairCaptureReturns ==
    /\ PairAwaits({"capture"})
    /\ \E cd \in CaptureResults, draws \in KeyDraws :
           PairSet(CaptureStep(cfg, proc[1], cd, draws),
                   CaptureStep(AllConfigured(cfg), ref.p, cd, draws))

PairAddReturns ==
    /\ PairAwaits({"insert"})
    /\ \E addOk \in BOOLEAN :
           LET a == AddStep(cfg, proc[1], store, addOk)
           IN  /\ proc' = [proc EXCEPT ![1] = a.p]
               /\ store' = a.store
               /\ ref' = AddStep(AllConfigured(cfg), ref.p, ref.store, addOk)
    /\ UNCHANGED cfg

PairSendReturns ==
    /\ PairAwaits({"custEmail", "adminEmail", "send"})
    /\ \E sendOk \in BOOLEAN :
           PairSet(SendStep(cfg, proc[1], sendOk), SendStep(AllConfigured(cfg), ref.p, sendOk))

PairQueryReturns ==
    /\ PairAwaits({"query"})
    /\ \E queryOk \in BOOLEAN :
        \E pick \in VerifyPicks(cfg, IF proc[1].pc = "query" THEN proc[1] ELSE ref.p, ref.store) :
           PairSet(QueryStep(cfg, proc[1], store, queryOk, pick),
                   QueryStep(AllConfigured(cfg), ref.p, ref.store, queryOk, pick))

InitPair ==
    /\ cfg \in Configs
    /\ store = cfg.seed
    /\ proc = [r \in ReqIds |-> Idle]
    /\ ref = [p |-> Idle, store |-> cfg.seed]

NextPair ==
    \/ PairReceive
    \/ PairTokenReturns
    \/ PairOrderReturns
    \/ PairCaptureReturns
    \/ PairAddReturns
    \/ PairSendReturns
    \/ PairQueryReturns

SpecPair == InitPair /\ [][NextPair]_vars

\* --------------------------------------------- two collections, one query

\* The most documents a collection holds when the query arrives.
MaxStored == 2

\* The documents earlier requests may have stored.
StoredDocs ==
    {LicenseDoc(l, d, EMAIL1, <<49>>, TXN1) : l \in LicenseVals \ {<<>>}, d \in DomainVals \ {<<>>}}

\* The collections of up to MaxStored documents.
Collections == UNION {[1..n -> StoredDocs] : n \in 0..MaxStored}

\* Two deployments of the same file with a database each: proc[1] queries
\* store, ref.p queries ref.store.
InitStores ==
    /\ cfg \in {c \in Configs : c = AllConfigured(c) /\ c.seed = <<>>}
    /\ store \in Collections
    /\ proc = [r \in ReqIds |-> Idle]
    /\ ref \in [p : {Idle}, store : Collections]

\* The same GET /verify reaches both deployments.
StoresReceiveVerify ==
    /\ proc[1].pc = "idle" /\ ref.p.pc = "idle"
    /\ \E q \in VerifyQueries(store) \cup VerifyQueries(ref.store) :
           PairSet(Route(cfg, [ep |-> "verify", body |-> q]),
                   Route(cfg, [ep |-> "verify", body |-> q]))

\* Both queries return; each database picks among its own matches.
StoresQueryReturns ==
    /\ proc[1].pc = "query" /\ ref.p.pc = "query"
    /\ \E queryOk \in BOOLEAN :
        \E pick \in VerifyPicks(cfg, proc[1], store), other \in VerifyPicks(cfg, ref.p, ref.store) :
           PairSet(QueryStep(cfg, proc[1], store, queryOk, pick),
                   QueryStep(cfg, ref.p, ref.store, queryOk, other))

NextStores == StoresReceiveVerify \/ StoresQueryReturns

SpecStores == InitStores /\ [][NextStores]_vars

\* ------------------------------------------------------------- vocabulary

Done(r) == proc[r].pc = "done"

DoneAt(r, ep) == proc[r].ep = ep /\ proc[r].pc = "done"

\* All of orderID, domain and email are present.
CaptureBodyComplete(b) == ~Falsy(b.orderID) /\ ~Falsy(b.domain) /\ ~Falsy(b.email)

\* All of license, domain, email and amount are present.
LicenseBodyComplete(b) ==
    ~Falsy(b.license) /\ ~Falsy(b.domain) /\ ~Falsy(b.email) /\ b.amount # <<>>

\* The request received a capture result (a JSON body) from the provider.
GotCapture(r) == proc[r].captured.status # "none" /\ ~proc[r].captured.throws

CaptureCompleted(r) == GotCapture(r) /\ proc[r].captured.status = "COMPLETED"

\* The calls of one kind a request issued.
CallCount(r, name) == Cardinality({i \in 1..Len(proc[r].calls) : proc[r].calls[i] = name})

Issued(r, name) == CallCount(r, name) > 0

NoEmail(r) == ~Issued(r, "custEmail") /\ ~Issued(r, "adminEmail")

\* A field of a JSON response body, <<>> when the body lacks it.
Field(b, f) == IF f \in DOMAIN b THEN b[f] ELSE <<>>

\* The documents in the collection are the preexisting ones and one per add()
\* that succeeded.
StoreIsSeedPlusAdds ==
    Len(store) = Len(cfg.seed) + Cardinality({r \in ReqIds : proc[r].saved = "yes"})

\* ------------------------------------------------------------------ claims

\* A capture request that passed checkDbConnection and the validation.
AdmittedCapture(r) ==
    proc[r].ep = "captureOrder" /\ cfg.db /\ CaptureBodyComplete(proc[r].body)

\* C1, as claimed: with the database connected and orderID, domain and email
\* present, every capture result with status "COMPLETED" is answered 200 with
\* {licenseKey, transactionId}.
C1_CompletedAlways200 ==
    \A r \in ReqIds :
        (Done(r) /\ AdmittedCapture(r) /\ CaptureCompleted(r))
            => /\ proc[r].status = 200
               /\ DOMAIN proc[r].resp = {"licenseKey", "transactionId"}

\* C1, amended: with the database connected and orderID, domain and email
\* present, every capture result with status "COMPLETED" that carries
\* purchase_units[0].payments.captures[0].id is answered 200 with the generated
\* licenseKey and that transactionId, whatever the outcomes of the store
\* insert and of the notification sends.
C1_CompletedWithIdIs200 ==
    \A r \in ReqIds :
        (Done(r) /\ AdmittedCapture(r) /\ CaptureCompleted(r) /\ proc[r].captured.path = "id")
            => /\ proc[r].status = 200
               /\ DOMAIN proc[r].resp = {"licenseKey", "transactionId"}
               /\ proc[r].resp.licenseKey = proc[r].key
               /\ proc[r].resp.licenseKey # <<>>
               /\ proc[r].resp.transactionId = proc[r].captured.id

\* C1, witness: a completed capture whose insert failed and whose customer
\* send failed, answered 200.
C1_Witness ==
    \E r \in ReqIds :
        /\ Done(r) /\ AdmittedCapture(r) /\ CaptureCompleted(r)
        /\ proc[r].captured.path = "id"
        /\ proc[r].saved = "no"
        /\ proc[r].calls = <<"token", "capture", "insert", "custEmail">>
        /\ proc[r].status = 200

\* C2: a capture result whose status is not "COMPLETED" (a body without a
\* status included) is answered 400; the request inserts no License record
\* and sends no customer or admin email.
C2_NotCompletedIs400 ==
    /\ StoreIsSeedPlusAdds
    /\ \A r \in ReqIds :
        (proc[r].ep = "captureOrder" /\ GotCapture(r) /\ ~CaptureCompleted(r))
            => /\ Done(r)
               /\ proc[r].status = 400
               /\ ~Issued(r, "insert")
               /\ proc[r].saved = ""
               /\ NoEmail(r)

\* C2, witness: a provider error body without a status field, answered 400.
C2_Witness ==
    \E r \in ReqIds :
        /\ DoneAt(r, "captureOrder") /\ GotCapture(r)
        /\ proc[r].captured.status = ""
        /\ proc[r].status = 400

\* C3: with the database connected, a capture request that lacks orderID,
\* domain or email is answered 400 and issues no external call: no token
\* request, no capture call, no insert, no email.
C3_MissingFieldNoCalls ==
    \A r \in ReqIds :
        (proc[r].ep = "captureOrder" /\ cfg.db /\ ~CaptureBodyComplete(proc[r].body))
            => /\ Done(r)
               /\ proc[r].status = 400
               /\ proc[r].calls = <<>>
               /\ proc[r].saved = ""

\* C3, witness: a request without email, rejected by a server whose payment
\* credentials are configured.
C3_Witness ==
    \E r \in ReqIds :
        /\ DoneAt(r, "captureOrder") /\ cfg.db /\ cfg.paypalId /\ cfg.paypalSecret
        /\ Falsy(proc[r].body.email) /\ ~Falsy(proc[r].body.orderID)
        /\ proc[r].status = 400

\* C4: when the access token cannot be acquired (client id or secret not
\* configured, or the token request fails), the capture request ends in 500;
\* the capture endpoint is not called, nothing is inserted, no email is sent.
C4_TokenFailureStops ==
    \A r \in ReqIds :
        /\ (AdmittedCapture(r) /\ (~cfg.paypalId \/ ~cfg.paypalSecret))
            => Done(r) /\ proc[r].status = 500 /\ proc[r].calls = <<>>
        /\ (proc[r].ep = "captureOrder" /\ proc[r].token = "failed")
            => /\ Done(r) /\ proc[r].status = 500
               /\ proc[r].calls = <<"token">>
               /\ proc[r].saved = ""

\* C4, witness: a capture request whose token request failed.
C4_Witness ==
    \E r \in ReqIds :
        DoneAt(r, "captureOrder") /\ proc[r].token = "failed" /\ proc[r].status = 500

\* C5: a completed capture whose store write succeeds adds exactly one License
\* record; its license is the response's licenseKey, its domain and email
\* are the request's, its amount is 49, and its transactionId is the
\* provider's first capture id and the response's transactionId.
C5_OneRecordPerSavedCapture ==
    /\ StoreIsSeedPlusAdds
    /\ \A r \in ReqIds :
        (DoneAt(r, "captureOrder") /\ CaptureCompleted(r) /\ proc[r].saved = "yes")
            => /\ CallCount(r, "insert") = 1
               /\ proc[r].docId \in (Len(cfg.seed) + 1)..Len(store)
               /\ \A o \in ReqIds \ {r} : proc[o].saved = "yes" => proc[o].docId # proc[r].docId
               /\ LET d == store[proc[r].docId]
                  IN  /\ d.license = Field(proc[r].resp, "licenseKey")
                      /\ d.license # <<>>
                      /\ d.domain = proc[r].body.domain
                      /\ d.email = proc[r].body.email
                      /\ d.amount = <<49>>
                      /\ d.transactionId = proc[r].captured.id
                      /\ d.transactionId = Field(proc[r].resp, "transactionId")

\* C5, witness: two completed captures, each of which saved its record.
C5_Witness ==
    \E r, o \in ReqIds :
        /\ r # o
        /\ DoneAt(r, "captureOrder") /\ CaptureCompleted(r) /\ proc[r].saved = "yes"
        /\ DoneAt(o, "captureOrder") /\ CaptureCompleted(o) /\ proc[o].saved = "yes"
        /\ proc[r].captured.path = "id"
        /\ proc[r].status = 200

\* The collection st holds a document with this license and this domain.
HoldsLicense(st, key, domain) ==
    \E i \in 1..Len(st) : st[i].license = key /\ st[i].domain = domain

\* Request r's query returns in this step: the handler answers from the
\* collection as it is now.
VerifyAnswers(r) ==
    proc[r].ep = "verify" /\ proc[r].pc = "query" /\ proc'[r].pc = "done"

\* The response body says verified: false or says nothing about it.
NotVerified(b) == IF "verified" \in DOMAIN b THEN b.verified = FALSE ELSE TRUE

\* The answer of the strict handler to a query that found, or did not find,
\* a document with the key and the domain.
StrictAnswer(r) ==
    IF HoldsLicense(store, proc[r].body.key, proc[r].body.domain)
    THEN proc'[r].status = 200 /\ Field(proc'[r].resp, "verified") = TRUE
    ELSE proc'[r].status = 404 /\ NotVerified(proc'[r].resp)

\* C6, as claimed: in api.js, with the database connected and key and domain
\* supplied, GET /verify answers 200 with verified: true exactly when the
\* store holds, at the time of the query, a document with that license and
\* that domain, and 404 in every other case.
C6_StrictVerifyIs200Or404 ==
    [][\A r \in ReqIds : (VerifyAnswers(r) /\ cfg.variant = "api") => StrictAnswer(r)]_vars

\* C6, amended: as claimed whenever the store query itself succeeds; a query
\* that fails is answered 500.
C6_StrictVerifyUnlessQueryFails ==
    [][\A r \in ReqIds :
            (VerifyAnswers(r) /\ cfg.variant = "api")
                => IF proc'[r].query = "failed"
                   THEN proc'[r].status = 500 /\ NotVerified(proc'[r].resp)
                   ELSE StrictAnswer(r)]_vars

\* C6, witness: the store holds KEY2 for DOMAIN1 only; KEY1 with DOMAIN1
\* (the domain matches, the key does not) is answered 404, and KEY2 with
\* DOMAIN2 (the key matches, the domain does not) is answered 404.
C6_Witness ==
    /\ cfg.variant = "api"
    /\ store = <<LicenseDoc(KEY2, DOMAIN1, EMAIL1, <<49>>, TXN1)>>
    /\ \E r, o \in ReqIds :
        /\ DoneAt(r, "verify") /\ proc[r].body = [key |-> KEY1, domain |-> DOMAIN1]
        /\ proc[r].status = 404
        /\ DoneAt(o, "verify") /\ proc[o].body = [key |-> KEY2, domain |-> DOMAIN2]
        /\ proc[o].status = 404

\* The fields of a License record that a verifying client must not see.
SensitiveFields == {"email", "amount", "transactionId", "createdAt"}

\* C7: in both variants a GET /verify that finds a record answers with
\* exactly license, domain and verified: true, and no verify response carries
\* the record's email, amount, transactionId or createdAt.
C7_VerifyDisclosesLicenseAndDomainOnly ==
    \A r \in ReqIds :
        DoneAt(r, "verify")
            => /\ DOMAIN proc[r].resp \cap SensitiveFields = {}
               /\ proc[r].status = 200
                    => /\ DOMAIN proc[r].resp = {"license", "domain", "verified"}
                       /\ proc[r].resp.verified = TRUE
                       /\ proc[r].docId \in 1..Len(store)
                       /\ proc[r].resp.license = store[proc[r].docId].license
                       /\ proc[r].resp.domain = store[proc[r].docId].domain

\* C7, witness: a verify request answered 200 from a record that holds an
\* email, an amount and a transaction id.
C7_Witness ==
    \E r \in ReqIds :
        /\ DoneAt(r, "verify") /\ proc[r].status = 200
        /\ proc[r].docId \in 1..Len(store)
        /\ store[proc[r].docId].transactionId # <<>>
        /\ store[proc[r].docId].email # <<>>

\* POST /license request r was answered 201.
Created(r) == DoneAt(r, "license") /\ proc[r].status = 201

C9_IncompleteLicenseIs400 ==
    /\ StoreIsSeedPlusAdds
    /\ \A r \in ReqIds :
        (proc[r].ep = "license" /\ cfg.db /\ ~LicenseBodyComplete(proc[r].body))
            => /\ Done(r)
               /\ proc[r].status = 400
               /\ proc[r].calls = <<>>
               /\ proc[r].saved = ""
               /\ proc[r].docId = 0

\* C9, witness: a request that omits amount only.
C9_Witness ==
    \E r \in ReqIds :
        /\ DoneAt(r, "license") /\ cfg.db
        /\ proc[r].body.amount = <<>>
        /\ ~Falsy(proc[r].body.license) /\ ~Falsy(proc[r].body.domain)
        /\ ~Falsy(proc[r].body.email)
        /\ proc[r].status = 400

\* The collaborators the configuration lacks.
Lacks(c) ==
    (IF c.db THEN {} ELSE {"db"})
        \cup (IF c.paypalId /\ c.paypalSecret THEN {} ELSE {"payment"})
        \cup (IF c.resend THEN {} ELSE {"email"})

\* The collaborators the handler of each path reads or calls.
Uses(ep) ==
    CASE ep = "status" -> {"db"}
      [] ep = "config" -> {"payment"}
      [] ep = "license" -> {"db"}
      [] ep = "createOrder" -> {"payment"}
      [] ep = "captureOrder" -> {"db", "payment", "email"}
      [] ep = "sendEmail" -> {"email"}
      [] ep = "verify" -> {"db"}
      [] OTHER -> {}

\* The body has every field its handler requires.
BodyComplete(p) ==
    CASE p.ep = "license" -> LicenseBodyComplete(p.body)
      [] p.ep = "captureOrder" -> CaptureBodyComplete(p.body)
      [] p.ep = "sendEmail" -> \A f \in DOMAIN p.body : ~Falsy(p.body[f])
      [] p.ep = "verify" -> ~VerifyMissing(cfg.variant, p.body.key, p.body.domain)
      [] OTHER -> TRUE

\* Both deployments have answered the request.
BothDone == proc[1].pc = "done" /\ ref.p.pc = "done"

\* The deployment under test answered as the reference deployment did.
SameResponse == proc[1].status = ref.p.status /\ proc[1].resp = ref.p.resp

\* C10, as claimed: when exactly one of database, payment provider and email
\* provider is not configured, every endpoint that uses it answers 503 (to a
\* request with a complete body), and every endpoint that does not use it
\* answers exactly as the fully configured deployment answers.
C10_DegradedIs503 ==
    \A x \in {"db", "payment", "email"} :
        (Lacks(cfg) = {x} /\ BothDone)
            => IF x \in Uses(proc[1].ep)
               THEN BodyComplete(proc[1]) => proc[1].status = 503
               ELSE SameResponse

\* C10, amended: when exactly one collaborator is not configured, every
\* endpoint that does not use it answers exactly as the fully configured
\* deployment answers. Without the database, /status, /license,
\* /capture-order and /verify answer 503 before anything else. Without the
\* email provider, /send-email answers 503 to a complete body and 400 to an
\* incomplete one, and /capture-order sends no email and otherwise answers as
\* the fully configured deployment. Without the payment credentials,
\* /create-order answers 500, /capture-order answers 500 to a complete body
\* and 400 to an incomplete one, and /config answers 500 when the client id
\* is the missing one and 200 otherwise.
C10_DegradedReportsOrSame ==
    LET d == proc[1]
    IN  BothDone =>
         /\ (Lacks(cfg) = {"db"} /\ "db" \in Uses(d.ep))
                => d.status = 503 /\ d.calls = <<>>
         /\ (Lacks(cfg) = {"email"} /\ d.ep = "sendEmail")
                => d.status = (IF BodyComplete(d) THEN 503 ELSE 400) /\ d.calls = <<>>
         /\ (Lacks(cfg) = {"email"} /\ d.ep = "captureOrder")
                => SameResponse /\ NoEmail(1)
         /\ (Lacks(cfg) = {"payment"} /\ d.ep = "createOrder")
                => d.status = 500 /\ d.calls = <<>>
         /\ (Lacks(cfg) = {"payment"} /\ d.ep = "captureOrder")
                => d.status = (IF BodyComplete(d) THEN 500 ELSE 400) /\ d.calls = <<>>
         /\ (Lacks(cfg) = {"payment"} /\ d.ep = "config")
                => d.status = (IF cfg.paypalId THEN 200 ELSE 500)
         /\ \A x \in {"db", "payment", "email"} :
                (Lacks(cfg) = {x} /\ x \notin Uses(d.ep)) => SameResponse

\* C10, witness: without the database, /send-email still sends and answers
\* 200, as the fully configured deployment does.
C10_Witness ==
    /\ Lacks(cfg) = {"db"}
    /\ BothDone
    /\ proc[1].ep = "sendEmail" /\ proc[1].status = 200
    /\ proc[1].calls = <<"contactEmail">>
    /\ ref.p.status = 200

\* Request r is a /capture-order whose capture came back "COMPLETED" with a
\* capture id, served by a deployment with the email provider configured.
NotifiableCapture(r) ==
    /\ DoneAt(r, "captureOrder") /\ CaptureCompleted(r)
    /\ proc[r].captured.path = "id"
    /\ cfg.resend

\* C11, as claimed: after a "COMPLETED" capture with the email provider
\* configured, the customer send and the admin send are both attempted in
\* every execution, whatever the outcome of the other.
C11_BothSendsAttempted ==
    \A r \in ReqIds :
        NotifiableCapture(r)
            => CallCount(r, "custEmail") = 1 /\ CallCount(r, "adminEmail") = 1

\* C11, the failing execution: the customer send threw, the response is 200
\* and the admin send was never attempted.
C11_Witness ==
    \E r \in ReqIds :
        /\ NotifiableCapture(r)
        /\ proc[r].status = 200
        /\ proc[r].calls = <<"token", "capture", "insert", "custEmail">>

\* C12: after a "COMPLETED" capture a failed store insert does not abort the
\* workflow: with the email provider configured the notification is still
\* attempted and the response is still 200; and every admin notification sent
\* says "Saved successfully." exactly when this request's insert succeeded
\* and "SAVE FAILED." exactly when it failed.
C12_AdminMailTellsInsertOutcome ==
    /\ StoreIsSeedPlusAdds
    /\ \A r \in ReqIds :
        proc[r].ep = "captureOrder"
            => /\ (proc[r].saved = "no" /\ cfg.resend) => Issued(r, "custEmail")
               /\ (proc[r].saved = "no" /\ Done(r)) => proc[r].status = 200
               /\ Issued(r, "adminEmail")
                    => /\ proc[r].saved \in {"yes", "no"}
                       /\ proc[r].adminSaid = "Saved successfully." <=> proc[r].saved = "yes"
                       /\ proc[r].adminSaid = "SAVE FAILED." <=> proc[r].saved = "no"
                       /\ proc[r].saved = "yes"
                            => /\ proc[r].docId \in (Len(cfg.seed) + 1)..Len(store)
                               /\ store[proc[r].docId].license = proc[r].key
                       /\ proc[r].saved = "no" => proc[r].docId = 0

\* C12, witness: the insert failed, both mails went out, the admin mail said
\* "SAVE FAILED." and the response is 200.
C12_Witness ==
    \E r \in ReqIds :
        /\ DoneAt(r, "captureOrder") /\ proc[r].saved = "no"
        /\ proc[r].calls = <<"token", "capture", "insert", "custEmail", "adminEmail">>
        /\ proc[r].adminSaid = "SAVE FAILED."
        /\ proc[r].status = 200
        /\ store = cfg.seed

\* Request r's createLicense returns in this step, with a record added.
AddsRecord(r) ==
    /\ proc[r].pc = "insert" /\ proc'[r].saved = "yes"
    /\ \/ proc[r].ep = "license" /\ proc'[r].status = 201
       \/ proc[r].ep = "captureOrder" /\ CaptureCompleted(r)

\* C13: over every interleaving of requests to all endpoints the store is
\* append-only: a step leaves every stored record as it is and where it is,
\* and the store changes only by one record added by a successful POST
\* /license or by a /capture-order whose capture completed; steps of
\* /status, /config, /create-order, /send-email and /verify leave it unchanged.
C13_StoreIsAppendOnly ==
    [][/\ Len(store') >= Len(store)
       /\ \A i \in 1..Len(store) : store'[i] = store[i]
       /\ store' # store
            => /\ Len(store') = Len(store) + 1
               /\ \E r \in ReqIds : AddsRecord(r) /\ proc'[r].docId = Len(store')
       /\ \A r \in ReqIds :
            (proc'[r] # proc[r] /\ proc'[r].ep \notin {"license", "captureOrder"})
                => store' = store]_vars

\* C13, witness: beside a preexisting record, one record added by /license
\* and one by /capture-order.
C13_Witness ==
    /\ Len(cfg.seed) = 1
    /\ Len(store) = 3
    /\ store[1] = cfg.seed[1]
    /\ \E r, o \in ReqIds :
        /\ DoneAt(r, "license") /\ proc[r].saved = "yes"
        /\ DoneAt(o, "captureOrder") /\ proc[o].saved = "yes"

\* The /capture-order requests that carry order id o.
CapturesOf(o) ==
    {r \in ReqIds : proc[r].ep = "captureOrder" /\ proc[r].body.orderID = o}

\* The provider reported "COMPLETED" for at most one capture of order o.
CompletedOnce(o) == Cardinality({r \in CapturesOf(o) : CaptureCompleted(r)}) <= 1

\* At most one request for order o inserted a record and at most one was
\* answered 200; the others were answered with one of the statuses in errs
\* and inserted nothing.
OneLicensePerOrder(o, errs) ==
    /\ Cardinality({r \in CapturesOf(o) : proc[r].saved = "yes"}) <= 1
    /\ Cardinality({r \in CapturesOf(o) : Done(r) /\ proc[r].status = 200}) <= 1
    /\ \A r \in CapturesOf(o) :
        (Done(r) /\ proc[r].status # 200)
            => proc[r].status \in errs /\ ~Issued(r, "insert") /\ proc[r].saved = ""

\* A capture request calls createLicense at most once, and only after a
\* "COMPLETED" capture result; the store holds one record per successful add.
InsertsFollowCompleted ==
    /\ StoreIsSeedPlusAdds
    /\ \A r \in ReqIds :
        proc[r].ep = "captureOrder"
            => /\ CallCount(r, "insert") <= 1
               /\ Issued(r, "insert") => CaptureCompleted(r)
               /\ proc[r].saved = "yes" => Issued(r, "insert")

\* C14, as claimed: for concurrent or repeated /capture-order requests with
\* the same orderID, if the provider reports "COMPLETED" for at most one of
\* them, at most one License record is inserted and at most one request is
\* answered 200; every other request is answered 400 or 500 and inserts
\* nothing; and captures never cause more inserts than the provider returned
\* "COMPLETED" results.
C14_OtherCapturesGet400Or500 ==
    /\ InsertsFollowCompleted
    /\ \A o \in OrderIds \ {<<>>} : CompletedOnce(o) => OneLicensePerOrder(o, {400, 500})

\* C14, amended: as claimed, except that the other requests are answered
\* 400, 500 or, when the database is not connected, 503.
C14_OneLicensePerCompletedCapture ==
    /\ InsertsFollowCompleted
    /\ \A o \in OrderIds \ {<<>>} :
        CompletedOnce(o) => OneLicensePerOrder(o, IF cfg.db THEN {400, 500} ELSE {503})

\* C14, witness: two requests for the same order, interleaved; the provider
\* completed the capture of one and refused the other, which got 400.
C14_Witness ==
    \E r, o \in ReqIds :
        /\ r # o
        /\ r \in CapturesOf(ORDER1) /\ o \in CapturesOf(ORDER1)
        /\ DoneAt(r, "captureOrder") /\ proc[r].status = 200 /\ proc[r].saved = "yes"
        /\ Done(o) /\ proc[o].status = 400 /\ GotCapture(o)
        /\ Len(store) = Len(cfg.seed) + 1

\* The characters the documented key format allows in a group.
UpperAlnum ==
    {"A", "B", "C", "D", "E", "F", "G", "H", "I", "J", "K", "L", "M", "N", "O", "P", "Q",
     "R", "S", "T", "U", "V", "W", "X", "Y", "Z", "0", "1", "2", "3", "4", "5", "6", "7",
     "8", "9"}

\* The pieces of s between the occurrences of sep.
RECURSIVE SplitOn(_, _)
SplitOn(s, sep) ==
    LET at == {i \in 1..Len(s) : s[i] = sep}
    IN  IF at = {} THEN <<s>>
        ELSE LET i == CHOOSE j \in at : \A k \in at : j <= k
             IN  <<SubSeq(s, 1, i - 1)>> \o SplitOn(SubSeq(s, i + 1, Len(s)), sep)

\* "PRO" followed by four hyphen-separated groups of 4 to 6 uppercase
\* alphanumeric characters.
MatchesProFormat(k) ==
    LET parts == SplitOn(k, "-")
    IN  /\ Len(parts) = 5
        /\ parts[1] = <<"P", "R", "O">>
        /\ \A g \in 2..5 :
            /\ Len(parts[g]) \in 4..6
            /\ \A i \in 1..Len(parts[g]) : parts[g][i] \in UpperAlnum

\* C15, as claimed: every license key issued by POST /capture-order in api.js
\* is "PRO" followed by four hyphen-separated groups of 4 to 6 uppercase
\* alphanumeric characters, whatever Math.random() returns.
C15_IssuedKeyMatchesFormat ==
    \A r \in ReqIds :
        (cfg.variant = "api" /\ DoneAt(r, "captureOrder") /\ proc[r].status = 200)
            => MatchesProFormat(proc[r].resp.licenseKey)

\* C15, the failing execution: Math.random() returned 0.5, 0, a long
\* fraction and 0.5; the key issued is "PRO-I--Q07KC-I".
C15_Witness ==
    \E r \in ReqIds :
        /\ cfg.variant = "api" /\ DoneAt(r, "captureOrder") /\ proc[r].status = 200
        /\ proc[r].resp.licenseKey
              = <<"P", "R", "O", "-", "I", "-", "-", "Q", "0", "7", "K", "C", "-", "I">>
        /\ proc[r].saved = "yes"
        /\ store[proc[r].docId].license = proc[r].resp.licenseKey

\* The external operations of one /capture-order request, in program order.
CaptureSteps == <<"token", "capture", "insert", "custEmail", "adminEmail">>

\* s is an initial part of t.
IsPrefix(s, t) == Len(s) <= Len(t) /\ s = SubSeq(t, 1, Len(s))

\* The operation request r awaits: the last one it issued, while it has not
\* responded.
Awaited(r) == IF Done(r) \/ proc[r].calls = <<>> THEN "" ELSE proc[r].calls[Len(proc[r].calls)]

\* C16: within one /capture-order request the external operations happen in
\* the order token request, capture call, store insert, customer email,
\* admin email, response: the operations issued so far are an initial part
\* of that list (the admin email following the customer email directly); an
\* operation is issued, and the response is sent, only in the step in which
\* the previously issued operation returns or fails; the insert is issued
\* only once the capture result is known to be "COMPLETED"; nothing is issued
\* after the response.
C16_CaptureStepsInOrder ==
    /\ [](\A r \in ReqIds :
            proc[r].ep = "captureOrder"
                => /\ IsPrefix(proc[r].calls, CaptureSteps)
                   /\ Issued(r, "insert") => CaptureCompleted(r)
                   /\ ~Done(r) => proc[r].pc = Awaited(r))
    /\ [][\A r \in ReqIds :
            (proc'[r].ep = "captureOrder" /\ proc'[r] # proc[r])
                => /\ proc[r].pc \in {"idle", Awaited(r)}
                   /\ ~Done(r)
                   /\ \/ proc'[r].calls = proc[r].calls /\ proc'[r].pc = "done"
                      \/ /\ Len(proc'[r].calls) = Len(proc[r].calls) + 1
                         /\ IsPrefix(proc[r].calls, proc'[r].calls)
                         /\ proc'[r].pc # "done"]_vars

\* C16, witness: a request that went through all five operations and then
\* responded.
C16_Witness ==
    \E r \in ReqIds :
        /\ DoneAt(r, "captureOrder") /\ proc[r].calls = CaptureSteps
        /\ proc[r].saved = "yes" /\ proc[r].status = 200

\* The two collections differ at most in documents that do not match both
\* the key and the domain of the query.
SameMatches(key, domain) ==
    HoldsLicense(store, key, domain) <=> HoldsLicense(ref.store, key, domain)

\* C17: in the strict verify handler two stores that differ only in records
\* not matching both key and domain yield identical responses to the same
\* query; in particular a query that matches nothing gets the same 404 and
\* the same body whether the domain has no record at all or has one under a
\* different key.
C17_StrictVerifyHidesOtherRecords ==
    (cfg.variant = "api" /\ BothDone /\ proc[1].ep = "verify")
        => /\ SameMatches(proc[1].body.key, proc[1].body.domain) => SameResponse
           /\ (proc[1].query = "empty" /\ ref.p.query = "empty")
                => /\ SameResponse
                   /\ proc[1].status = 404
                   /\ proc[1].resp
                        = [verified |-> FALSE, message |-> "Invalid license key or domain."]

\* C17, witness: the same unmatched query against a store with no record of
\* the domain and against a store that holds the domain under another key.
C17_Witness ==
    /\ cfg.variant = "api" /\ BothDone
    /\ proc[1].body = [key |-> KEY1, domain |-> DOMAIN1]
    /\ \A i \in 1..Len(store) : store[i].domain # DOMAIN1
    /\ \E i \in 1..Len(ref.store) : ref.store[i].domain = DOMAIN1 /\ ref.store[i].license = KEY2
    /\ proc[1].status = 404 /\ ref.p.status = 404

\* Request r's capture came back "COMPLETED" without a capture id: a link of
\* purchase_units[0].payments.captures[0] is missing, or the capture has no id.
CompletedWithoutId(r) ==
    proc[r].ep = "captureOrder" /\ CaptureCompleted(r) /\ proc[r].captured.path # "id"

\* C18, as claimed: a "COMPLETED" capture result that lacks the capture id
\* ends in an error response, with no License record inserted and no email
\* sent; /capture-order never writes a record with an absent transactionId
\* and never answers 200 with an absent transactionId.
C18_CaptureIdValidated ==
    \A r \in ReqIds :
        proc[r].ep = "captureOrder"
            => /\ CompletedWithoutId(r)
                    => /\ ~Issued(r, "insert") /\ proc[r].saved # "yes"
                       /\ NoEmail(r)
                       /\ Done(r) => proc[r].status >= 400
               /\ (Done(r) /\ proc[r].status = 200)
                    => Field(proc[r].resp, "transactionId") # <<>>
               /\ proc[r].saved = "yes" => store[proc[r].docId].transactionId # <<>>

\* C18, the failing execution: the first capture has no id; createLicense is
\* called with an undefined transactionId and fails, both mails are sent, and
\* the response is 200 without a transactionId.
C18_Witness ==
    \E r \in ReqIds :
        /\ CompletedWithoutId(r) /\ proc[r].captured.path = "no_id"
        /\ Done(r) /\ proc[r].status = 200
        /\ DOMAIN proc[r].resp = {"licenseKey"}
        /\ proc[r].saved = "no"
        /\ proc[r].calls = CaptureSteps

\* C19: without a database handle, POST /license, POST /capture-order and GET
\* /verify are answered 503 by checkDbConnection before the handler body
\* runs, whatever the request holds: no field is validated, no token is
\* requested, no capture is made, nothing is stored. GET /status answers 503
\* without a database handle and 200 with one.
C19_NoDatabaseIs503 ==
    /\ ~cfg.db => store = cfg.seed
    /\ \A r \in ReqIds :
        /\ (~cfg.db /\ proc[r].ep \in {"license", "captureOrder", "verify"})
            => /\ Done(r)
               /\ proc[r].status = 503
               /\ proc[r].resp = [message |-> "Service Unavailable: Database not connected."]
               /\ proc[r].calls = <<>>
               /\ ~GotCapture(r) /\ proc[r].token = "none" /\ proc[r].saved = ""
        /\ proc[r].ep = "status"
            => Done(r) /\ proc[r].status = (IF cfg.db THEN 200 ELSE 503)

\* C19, witness: with payment and email configured but no database, a
\* complete /capture-order and an incomplete /license are both answered 503.
C19_Witness ==
    /\ ~cfg.db /\ cfg.paypalId /\ cfg.paypalSecret /\ cfg.resend
    /\ \E r, o \in ReqIds :
        /\ DoneAt(r, "captureOrder") /\ CaptureBodyComplete(proc[r].body)
        /\ proc[r].status = 503
        /\ DoneAt(o, "license") /\ ~LicenseBodyComplete(proc[o].body)
        /\ proc[o].status = 503

\* C20, as claimed: in app.js GET /verify verifies by key and domain: a
\* response carries a license value only when the caller supplied that value
\* as key together with the domain of a record that holds it; a request with
\* a domain but no key, or with a key that differs from the stored license,
\* gets neither a 200 nor a license value.
C20_LenientVerifyNeedsKey ==
    \A r \in ReqIds :
        (cfg.variant = "app" /\ DoneAt(r, "verify"))
            => LET key == proc[r].body.key
                   domain == proc[r].body.domain
               IN  /\ "license" \in DOMAIN proc[r].resp
                        => /\ key # <<>>
                           /\ proc[r].resp.license = key
                           /\ HoldsLicense(store, key, domain)
                   /\ (key = <<>> \/ ~HoldsLicense(store, key, domain))
                        => proc[r].status # 200 /\ "license" \notin DOMAIN proc[r].resp

\* C20, the failing execution: a request that names a domain only is
\* answered 200 with the license stored for that domain.
C20_Witness ==
    \E r \in ReqIds :
        /\ cfg.variant = "app" /\ DoneAt(r, "verify")
        /\ proc[r].body = [key |-> <<>>, domain |-> DOMAIN1]
        /\ proc[r].status = 200
        /\ proc[r].resp = [license |-> KEY2, domain |-> DOMAIN1, verified |-> TRUE]

====
